---- MODULE Spec2Model ----
(***************************************************************************)
(* Model of btgym/datafeed/base.py: class BTgymBaseData.                   *)
(*                                                                         *)
(* One instance of the class is modelled.  Its fields are the variables;   *)
(* every public method is one action that runs the whole method, the       *)
(* random draws of the sampling loop being nondeterministic choices.       *)
(*                                                                         *)
(* Time is counted in minutes since a Monday 00:00, so that                *)
(* datetime.weekday() is (minutes \div 1440) % 7 with Monday = 0.          *)
(* A pandas dataframe is the sequence of its index timestamps (strictly    *)
(* ascending); row r of the code (0-based) is element r + 1 here.          *)
(* Python's None is None (= -1) for numbers, NoObject (= 0) for object     *)
(* references and the empty sequence for self.data.                        *)
(*                                                                         *)
(* Three specifications: Spec, the public methods called in any order;     *)
(* SpecKept, reset and sample called by a caller that keeps every instance *)
(* it was given; SpecLoop, calls of _sample_interval and _sample_random    *)
(* followed step by step through their loops.                              *)
(***************************************************************************)
EXTENDS Integers, Sequences, FiniteSets, TLC

VARIABLES
    filename,              \* self.filename: 0 (None) or a file id
    data,                  \* self.data: <<>> (None) or the index timestamps
    is_ready,              \* self.is_ready
    timeframe,             \* self.timeframe (parsing_params), minutes per row
    sample_duration,       \* self.sample_duration, in minutes
    time_gap,              \* self.time_gap, in minutes
    test_period,           \* self.test_period, in minutes
    start_weekdays,        \* self.start_weekdays
    start_00,              \* self.start_00
    max_time_gap,          \* self.max_time_gap
    max_sample_len_delta,  \* self.max_sample_len_delta
    sample_num_records,    \* self.sample_num_records
    test_num_records,      \* self.test_num_records
    train_num_records,     \* self.train_num_records
    train_interval,        \* self.train_interval
    test_interval,         \* self.test_interval
    sample_num,            \* self.sample_num
    sample_instance,       \* self.sample_instance: NoObject or a reference into objects,
                           \* references being numbered in order of construction
    metadata,              \* self.metadata
    nested_class_ref,      \* self.nested_class_ref: TRUE iff a class, FALSE iff None
    _config_stack,         \* self._config_stack: number of entries left, None if absent
    objects,               \* the instance the dataset holds, by reference
    last,                  \* the last call made on the instance and what it gave
    n_changes,             \* calls of set_params and forced reloads so far
    frame                  \* the call of _sample_interval or _sample_random that is
                           \* followed step by step: its arguments, locals and position

vars == <<filename, data, is_ready, timeframe, sample_duration, time_gap, test_period,
          start_weekdays, start_00, max_time_gap, max_sample_len_delta,
          sample_num_records, test_num_records, train_num_records, train_interval,
          test_interval, sample_num, sample_instance, metadata, nested_class_ref,
          _config_stack, objects, last, n_changes, frame>>

config_vars == <<timeframe, sample_duration, time_gap, test_period, start_weekdays, start_00>>
plan_vars == <<max_time_gap, max_sample_len_delta, sample_num_records, test_num_records,
               train_num_records>>
nested_vars == <<metadata, nested_class_ref, _config_stack>>
dataset_vars == <<filename, data, is_ready, config_vars, plan_vars, train_interval,
                  test_interval, sample_num, sample_instance, nested_vars, objects, last,
                  n_changes>>

-----------------------------------------------------------------------------
(* Bounds of the model *)

MaxObjects == 2        \* instances built by sampling in one behaviour
MaxChanges == 1        \* calls of set_params and forced reloads in one behaviour

-----------------------------------------------------------------------------
(* Values *)

None == -1
NoObject == 0
max_attempts == 100
MinutesPerDay == 24 * 60
DaysPerWeek == 7

\* Two data files.  File 1: Sun 23:58, Sun 23:59, Mon 00:02 .. Mon 00:05 (6 rows).
\* File 2: Mon 23:57, Mon 23:59, Tue 00:01 .. Tue 00:06 (8 rows).  File 3 does not exist.
Files == <<
    <<10078, 10079, 10082, 10083, 10084, 10085>>,
    <<1437, 1439, 1441, 1442, 1443, 1444, 1445, 1446>> >>
FileIds == DOMAIN Files
MissingFile == Len(Files) + 1

\* The numbers of entries of the _config_stack given to the constructor.
StackDepths == {0, 1}

\* The same for instances whose samples can be sampled from in their turn.
NestedDepths == {0, 1, 2}

\* The parameters (parsing_params and sampling_params, as far as they matter
\* here) given to the constructor or to set_params.
P(tf, dur, gap, test, days, at00) ==
    [timeframe |-> tf, sample_duration |-> dur, time_gap |-> gap, test_period |-> test,
     start_weekdays |-> days, start_00 |-> at00]
Params == {
    P(1, 0, 0,  0, {},        FALSE),   \* the constructor's defaults
    P(1, 2, 0,  0, {0, 1, 6}, FALSE),
    P(1, 2, 60, 3, {0},       TRUE),
    P(1, 2, 60, 3, {0, 1, 6}, FALSE),
    P(1, 2, 0,  0, {2},       FALSE),
    P(1, 4, 60, 3, {0, 1, 6}, TRUE),
    P(1, 8, 0,  3, {0, 1, 6}, FALSE),
    P(2, 2, 60, 5, {0, 1, 6}, FALSE) }

\* The parameters given to set_params after construction.
NewParams == {
    P(1, 2, 60, 3, {0, 1, 6}, FALSE),
    P(1, 2, 0,  0, {2},       FALSE),
    P(1, 8, 0,  3, {0, 1, 6}, FALSE) }

-----------------------------------------------------------------------------
(* Python and pandas primitives, as the code uses them *)

Abs(x) == IF x < 0 THEN 0 - x ELSE x
Min(a, b) == IF a < b THEN a ELSE b
Max(a, b) == IF a > b THEN a ELSE b

\* int(num / den) for num >= 0, den > 0
PyInt(num, den) == num \div den

\* round(num / den) for num >= 0, den > 0: halves go to the even neighbour
PyRound(num, den) ==
    LET q == num \div den
        r == num % den
    IN  IF 2 * r < den THEN q
        ELSE IF 2 * r > den THEN q + 1
        ELSE IF q % 2 = 0 THEN q ELSE q + 1

\* A slice bound i of a sequence of R elements, as Python clips it.
PyBound(R, i) == IF i < 0 THEN Max(R + i, 0) ELSE Min(i, R)

\* d[lo:hi]
PySlice(d, lo, hi) == SubSeq(d, PyBound(Len(d), lo) + 1, PyBound(Len(d), hi))

\* Timestamp.weekday()
Weekday(ts) == (ts \div MinutesPerDay) % DaysPerWeek

\* Timestamp.date(), as the timestamp of its 00:00
DateOf(ts) == ts - (ts % MinutesPerDay)

\* d.index.get_loc(ts, method='nearest'): the row nearest to ts; of two rows at
\* the same distance pandas takes the one with the larger index.
get_loc(d, ts) ==
    CHOOSE i \in 0 .. Len(d) - 1 :
        \A j \in 0 .. Len(d) - 1 :
            \/ Abs(d[i + 1] - ts) < Abs(d[j + 1] - ts)
            \/ Abs(d[i + 1] - ts) = Abs(d[j + 1] - ts) /\ i >= j

\* The values of int(L * b), b a Beta draw in [0, 1)
IntDraws(L) == IF L > 0 THEN 0 .. L - 1 ELSE L + 1 .. 0 \cup {0}

\* The values of round(L * b), b a Beta draw in [0, 1)
RoundDraws(L) == IF L > 0 THEN 0 .. L ELSE L .. 0

-----------------------------------------------------------------------------
(* The record of the last call *)

\* op: the method called; kind: "ok" or the error raised; attempts: the count in the
\* error message (0 if none); ret: the instance returned; fresh: the call went to
\* _sample_interval; get_new, sample_type, b_alpha: arguments of sample.
Call(op, kind, attempts, ret, fresh, get_new, sample_type, b_alpha) ==
    [op |-> op, kind |-> kind, attempts |-> attempts, ret |-> ret, fresh |-> fresh,
     get_new |-> get_new, sample_type |-> sample_type, b_alpha |-> b_alpha]

Plain(op, kind) == Call(op, kind, 0, NoObject, FALSE, FALSE, 0, 0)

\* A call followed step by step.  fn: the method; pc: "check" (at the assertions
\* on entry), "while" (at the head of the outer loop), "inner" (at the head of the
\* inner loop), "done" (returned or raised) or "idle" (no call yet); interval,
\* b_alpha, b_beta: the arguments; attempts, first_row: the locals; kind: "ok" or
\* the error raised.
Frame(fn, pc, interval, b_alpha, b_beta, attempts, first_row, kind) ==
    [fn |-> fn, pc |-> pc, interval |-> interval, b_alpha |-> b_alpha, b_beta |-> b_beta,
     attempts |-> attempts, first_row |-> first_row, kind |-> kind]

NoFrame == Frame("", "idle", <<>>, 0, 0, 0, None, "")

-----------------------------------------------------------------------------
(* __init__ *)

\* the stack handed on whole to the nested instance
PopMutant(entries) ==
    [nested_class_ref |-> entries > 0, _config_stack |-> entries]

\* The constructor's handling of a _config_stack of `entries` entries (0: empty
\* or None): pop() takes the last entry off the constructor's own deep copy and
\* its class_ref becomes nested_class_ref; with nothing to pop the class is None.
\* _config_stack is the number of entries left, which the nested instance is
\* built with.
Pop(entries) ==
    [nested_class_ref |-> entries > 0,
     _config_stack |-> IF entries > 0 THEN entries - 1 ELSE 0]

\* the state after construction with a _config_stack whose length is in depths
Construct(depths) ==
    /\ filename \in {0, 1}
    /\ data = <<>>
    /\ is_ready = FALSE
    /\ \E p \in Params :
        /\ timeframe = p.timeframe
        /\ sample_duration = p.sample_duration
        /\ time_gap = p.time_gap
        /\ test_period = p.test_period
        /\ start_weekdays = p.start_weekdays
        /\ start_00 = p.start_00
    /\ max_time_gap = None
    /\ max_sample_len_delta = None
    /\ sample_num_records = 0
    /\ test_num_records = 0
    /\ train_num_records = 0
    /\ train_interval = <<0, 0>>
    /\ test_interval = <<0, 0>>
    /\ sample_num = 0
    /\ sample_instance = NoObject
    /\ metadata = [sample_num |-> 0, type |-> None]
    /\ \E k \in depths :
        /\ nested_class_ref = Pop(k).nested_class_ref
        /\ _config_stack = Pop(k)._config_stack
    /\ objects = <<>>
    /\ last = Plain("__init__", "ok")
    /\ n_changes = 0
    /\ frame = NoFrame

Init == Construct(StackDepths)

-----------------------------------------------------------------------------
(* set_params *)

set_params(p) ==
    /\ n_changes < MaxChanges
    /\ n_changes' = n_changes + 1
    /\ timeframe' = p.timeframe
    /\ sample_duration' = p.sample_duration
    /\ time_gap' = p.time_gap
    /\ test_period' = p.test_period
    /\ start_weekdays' = p.start_weekdays
    /\ start_00' = p.start_00
    /\ last' = Plain("set_params", "ok")
    /\ UNCHANGED <<filename, data, is_ready, plan_vars, train_interval, test_interval,
                   sample_num, sample_instance, nested_vars, objects, frame>>

-----------------------------------------------------------------------------
(* read_csv *)

\* the early return left out for a call that names a file
ReadCsvMutant(data_filename, force_reload) ==
    LET f == IF data_filename # 0 THEN data_filename ELSE filename
    IN  IF data # <<>> /\ ~force_reload /\ data_filename = 0
        THEN [kind |-> "ok", filename |-> filename, data |-> data]
        ELSE IF f = 0 THEN [kind |-> "TypeError", filename |-> f, data |-> data]
        ELSE IF f \notin FileIds
        THEN [kind |-> "FileNotFoundError", filename |-> f, data |-> data]
        ELSE [kind |-> "ok", filename |-> f, data |-> Files[f]]

\* What read_csv(data_filename, force_reload) does to filename and data:
\* kind "ok" or the error raised.
ReadCsv(data_filename, force_reload) ==
    IF data # <<>> /\ ~force_reload
    THEN [kind |-> "ok", filename |-> filename, data |-> data]
    ELSE LET f == IF data_filename # 0 THEN data_filename ELSE filename
         IN  IF f = 0 THEN [kind |-> "TypeError", filename |-> f, data |-> data]
             ELSE IF f \notin FileIds
                  THEN [kind |-> "FileNotFoundError", filename |-> f, data |-> data]
                  ELSE [kind |-> "ok", filename |-> f, data |-> Files[f]]

Reloads(force_reload) == force_reload /\ data # <<>>

read_csv(data_filename, force_reload) ==
    LET r == ReadCsv(data_filename, force_reload)
    IN  /\ Reloads(force_reload) => n_changes < MaxChanges
        /\ n_changes' = IF Reloads(force_reload) THEN n_changes + 1 ELSE n_changes
        /\ filename' = r.filename
        /\ data' = r.data
        /\ last' = Plain("read_csv", r.kind)
        /\ UNCHANGED <<is_ready, config_vars, plan_vars, train_interval, test_interval,
                       sample_num, sample_instance, nested_vars, objects, frame>>

-----------------------------------------------------------------------------
(* reset / _reset *)

\* the second assertion left out
TestHostsSampleMutant(test, n) == TRUE

\* the two assertions of _reset
TrainHostsSample(train, n) == train >= n
TestHostsSample(test, n) == test > 0 => test >= n

\* the counter carried over a reset
SampleNumAtResetMutant == sample_num

\* self.sample_num as a successful _reset leaves it
SampleNumAtReset == 0

\* break_point taken one row early
BreakPointMutant(train) == train - 1

\* break_point
BreakPoint(train) == train

\* the cached sample dropped by _reset
CachedAtResetMutant == NoObject

\* self.sample_instance after _reset, which does not assign it
CachedAtReset == sample_instance

_reset(data_filename) ==
    LET r == ReadCsv(data_filename, FALSE)
        n == PyInt(sample_duration, timeframe)
        test == PyRound(test_period, timeframe)
        train == Len(r.data) - test
        break_point == BreakPoint(train)
    IN  /\ filename' = r.filename
        /\ data' = r.data
        /\ sample_instance' = CachedAtReset
        /\ UNCHANGED <<config_vars, nested_vars, objects, n_changes, frame>>
        /\ IF r.kind # "ok"
           THEN /\ last' = Plain("reset", r.kind)
                /\ UNCHANGED <<is_ready, plan_vars, train_interval, test_interval,
                               sample_num>>
           ELSE /\ max_time_gap' = time_gap
                /\ max_sample_len_delta' = sample_duration
                /\ sample_num_records' = n
                /\ test_num_records' = test
                /\ train_num_records' = train
                /\ IF TrainHostsSample(train, n) /\ TestHostsSample(test, n)
                   THEN /\ train_interval' = <<0, break_point>>
                        /\ test_interval' = <<break_point, Len(r.data)>>
                        /\ sample_num' = SampleNumAtReset
                        /\ is_ready' = TRUE
                        /\ last' = Plain("reset", "ok")
                   ELSE /\ last' = Plain("reset", "InsufficientDataError")
                        /\ UNCHANGED <<is_ready, train_interval, test_interval,
                                       sample_num>>

-----------------------------------------------------------------------------
(* _sample_interval *)

\* What one run of _sample_interval gives: kind "ok" with the accepted window, or
\* the error raised.  attempts is the count the error message carries (0 if none).
Outcome(kind, attempts, first_row, adj_timedate, sampled_data) ==
    [kind |-> kind, attempts |-> attempts, first_row |-> first_row,
     adj_timedate |-> adj_timedate, sampled_data |-> sampled_data]

Raise(kind, attempts) == Outcome(kind, attempts, 0, 0, <<>>)

\* self.data[first_row:first_row + 1], whose .index[0] is sample_first_day
FirstDay(first_row) == PySlice(data, first_row, first_row + 1)

\* sample_first_day.weekday() in self.start_weekdays
GoodDay(sample_first_day) == Weekday(sample_first_day) \in start_weekdays

\* the condition of both while loops and of the assertion after the inner one
InBudget(attempts) == attempts <= max_attempts

\* adj_timedate
AdjTimedate(sample_first_day) ==
    IF start_00 THEN DateOf(sample_first_day) ELSE sample_first_day

\* the data gap check with <= for <
GapOkMutant(sample_len) == sample_len - max_sample_len_delta <= max_time_gap

\* the data gap check
GapOk(sample_len) == sample_len - max_sample_len_delta < max_time_gap

\* The rest of a pass of the outer loop for a start record that passed the day
\* check: alignment, snapping, slicing, the gap check and the construction of the
\* new instance.  "reject" says that the window fails the gap check and the
\* outer loop goes on.
Window(sample_first_day) ==
    LET adj_timedate == AdjTimedate(sample_first_day)
        first_row == get_loc(data, adj_timedate)
        last_row == first_row + sample_num_records
        sampled_data == PySlice(data, first_row, last_row)
    IN  IF sampled_data = <<>> THEN Raise("IndexError", 0)
        ELSE IF GapOk(sampled_data[Len(sampled_data)] - sampled_data[1])
             THEN IF nested_class_ref
                  THEN Outcome("ok", 0, first_row, adj_timedate, sampled_data)
                  ELSE Raise("TypeError", 0)
             ELSE Raise("reject", 0)

\* What the loops need to know of a candidate first_row: whether it has a record,
\* whether the record's day is allowed, and what its window gives.
Candidate(first_row) ==
    LET day == FirstDay(first_row)
    IN  IF day = <<>>
        THEN [has_row |-> FALSE, good_day |-> FALSE, window |-> Raise("IndexError", 0)]
        ELSE [has_row |-> TRUE, good_day |-> GoodDay(day[1]), window |-> Window(day[1])]

\* the first draw of a pass of the outer loop
FirstDraws(interval) ==
    {interval[1] + o :
        o \in IntDraws(interval[Len(interval)] - interval[1] - sample_num_records)}

\* a draw of the inner loop
ReDraws(interval) ==
    {interval[1] + o :
        o \in RoundDraws(interval[Len(interval)] - interval[1] - sample_num_records)}

\* A candidate at the head of the inner loop with `attempts` counted: "redraw"
\* (the inner loop draws again), "reject", or the outcome that ends the run.
Verdict(c, attempts) ==
    IF ~c.has_row THEN c.window
    ELSE IF ~c.good_day /\ InBudget(attempts) THEN Raise("redraw", 0)
    ELSE IF ~InBudget(attempts) THEN Raise("SamplingExhaustedError", attempts)
    ELSE c.window

\* The loops at the point where `attempts` have been counted.  pos.top: the head
\* of the outer loop can be reached with that count; pos.inner: the head of the
\* inner loop can be reached with that count, after a redraw.  first and redrawn
\* are the candidates the two kinds of draw can give.  out: the outcomes that end
\* the run at this count; pos: what can be reached with one more attempt counted.
Count(attempts, pos, first, redrawn) ==
    LET heads == (IF pos.inner THEN redrawn ELSE {})
                 \cup (IF pos.top /\ InBudget(attempts) THEN first ELSE {})
        verdicts == {Verdict(c, attempts) : c \in heads}
    IN  [out |-> {v \in verdicts : v.kind \notin {"redraw", "reject"}}
                 \cup (IF pos.top /\ ~InBudget(attempts)
                       THEN {Raise("SamplingExhaustedError", attempts)} ELSE {}),
         pos |-> [top |-> \E v \in verdicts : v.kind = "reject",
                  inner |-> \E v \in verdicts : v.kind = "redraw"]]

\* k >= 1 counts in a row, from `attempts` on.  Within the budget a count gives
\* the same whatever its number is, so a count that leaves the positions as they
\* were stands for all that follow it within the budget; the others are taken by
\* halves, which keeps the evaluation shallow.
RECURSIVE Counts(_, _, _, _, _)
Counts(attempts, k, pos, first, redrawn) ==
    LET c == Count(attempts, pos, first, redrawn)
    IN  IF k = 1 \/ (c.pos = pos /\ InBudget(attempts + k - 1)) THEN c
        ELSE LET h == k \div 2
                 a == Counts(attempts, h, pos, first, redrawn)
                 b == Counts(attempts + h, k - h, a.pos, first, redrawn)
             IN  [out |-> a.out \cup b.out, pos |-> b.pos]

\* The two while loops: attempts runs from 0 to at most max_attempts + 1, where
\* nothing goes on.
SampleLoop(first, redrawn) ==
    Counts(0, max_attempts + 2, [top |-> TRUE, inner |-> FALSE], first, redrawn).out

\* the last assertion on entry with <= for <
ValidIntervalMutant(interval) ==
    interval[1] <= interval[Len(interval)] /\ interval[Len(interval)] <= Len(data)

\* the last assertion on entry: interval[0] < interval[-1] <= self.data.shape[0]
ValidInterval(interval) ==
    interval[1] < interval[Len(interval)] /\ interval[Len(interval)] <= Len(data)

\* The assertions _sample_interval makes on entry, in their order: the error of
\* the first that fails, "ok" if none does.
Precheck(interval, b_alpha, b_beta) ==
    IF data = <<>> THEN "EmptyDataError"
    ELSE IF Len(interval) # 2 THEN "InvalidIntervalError"
    ELSE IF ~(b_alpha > 0 /\ b_beta > 0) THEN "InvalidDistributionParamError"
    ELSE IF ~ValidInterval(interval) THEN "InvalidIntervalError"
    ELSE "ok"

\* The outcomes _sample_interval(interval, b_alpha, b_beta) can have.
_sample_interval(interval, b_alpha, b_beta) ==
    IF Precheck(interval, b_alpha, b_beta) # "ok"
    THEN {Raise(Precheck(interval, b_alpha, b_beta), 0)}
    ELSE SampleLoop({Candidate(r) : r \in FirstDraws(interval)},
                    {Candidate(r) : r \in ReDraws(interval)})

-----------------------------------------------------------------------------
(* _sample_interval and _sample_random, step by step *)

Running == frame.pc \in {"check", "while", "inner"}

\* the call is made
Enter(fn, interval, b_alpha, b_beta) ==
    /\ ~Running
    /\ frame' = Frame(fn, "check", interval, b_alpha, b_beta, 0, None, "")
    /\ UNCHANGED dataset_vars

\* the only assertion _sample_random makes on entry
PrecheckRandom == IF data = <<>> THEN "EmptyDataError" ELSE "ok"

\* the assertions on entry; attempts = 0 follows them
Check ==
    /\ frame.pc = "check"
    /\ LET k == IF frame.fn = "_sample_random" THEN PrecheckRandom
                 ELSE Precheck(frame.interval, frame.b_alpha, frame.b_beta)
       IN  frame' = IF k = "ok" THEN [frame EXCEPT !.pc = "while"]
                    ELSE [frame EXCEPT !.pc = "done", !.kind = k]
    /\ UNCHANGED dataset_vars

\* the draws of _sample_random, both made with int()
RandomDraws == IntDraws(Len(data) - sample_num_records - 1)

\* the rows a draw can give: the first draw of a pass of the outer loop, or a
\* draw of the inner loop
Draws(first) ==
    IF frame.fn = "_sample_random" THEN RandomDraws
    ELSE IF first THEN FirstDraws(frame.interval)
    ELSE ReDraws(frame.interval)

\* first_row drawn as r and sample_first_day read, the next position being pc
Drawn(r, attempts, pc) ==
    IF FirstDay(r) = <<>>
    THEN [frame EXCEPT !.pc = "done", !.kind = "IndexError", !.first_row = r]
    ELSE [frame EXCEPT !.pc = pc, !.first_row = r, !.attempts = attempts]

\* the head of the outer loop: a pass begins with a draw, or the loop is left
\* and the error after it raised
While ==
    /\ frame.pc = "while"
    /\ IF InBudget(frame.attempts)
       THEN \E r \in Draws(TRUE) : frame' = Drawn(r, frame.attempts, "inner")
       ELSE frame' = [frame EXCEPT !.pc = "done", !.kind = "SamplingExhaustedError"]
    /\ UNCHANGED dataset_vars

\* the condition of the inner loop
Resample ==
    ~GoodDay(FirstDay(frame.first_row)[1]) /\ InBudget(frame.attempts)

\* a pass that does not count
CountedMutant(attempts) == attempts

\* attempts += 1
Counted(attempts) == attempts + 1

\* a pass of the inner loop
Redraw ==
    /\ frame.pc = "inner"
    /\ Resample
    /\ \E r \in Draws(FALSE) : frame' = Drawn(r, Counted(frame.attempts), "inner")
    /\ UNCHANGED dataset_vars

\* what the failed assertion after the inner loop raises: _sample_interval
\* catches the AssertionError and raises RuntimeError, the error it also raises
\* after the outer loop; _sample_random lets the AssertionError through
Quit ==
    IF frame.fn = "_sample_random" THEN "AssertionError" ELSE "SamplingExhaustedError"

\* the inner loop is left: the assertion after it, then the window
Settle ==
    /\ frame.pc = "inner"
    /\ ~Resample
    /\ IF ~InBudget(frame.attempts)
       THEN frame' = [frame EXCEPT !.pc = "done", !.kind = Quit]
       ELSE LET w == Window(FirstDay(frame.first_row)[1])
            IN  frame' = IF w.kind = "reject"
                         THEN [frame EXCEPT !.pc = "while", !.attempts = Counted(@)]
                         ELSE IF w.kind = "ok"
                         THEN [frame EXCEPT !.pc = "done", !.kind = "ok",
                                            !.first_row = w.first_row]
                         ELSE [frame EXCEPT !.pc = "done", !.kind = w.kind]
    /\ UNCHANGED dataset_vars

\* the call goes on
Step == Check \/ While \/ Redraw \/ Settle

-----------------------------------------------------------------------------
(* sample / _sample *)

\* get_new ignored: every call draws
NeedNewMutant(get_new) == TRUE

\* the condition under which _sample draws a new sample
NeedNew(get_new) == sample_instance = NoObject \/ get_new

\* the caller's Beta parameters passed on for test samples too
SampleDrawsMutant(sample_type, b_alpha, b_beta) ==
    _sample_interval(IF sample_type = 0 THEN train_interval ELSE test_interval,
                     b_alpha, b_beta)

\* the interval and Beta parameters _sample passes on
SampleDraws(sample_type, b_alpha, b_beta) ==
    IF sample_type = 0
    THEN _sample_interval(train_interval, b_alpha, b_beta)
    ELSE _sample_interval(test_interval, 1, 1)

\* the counter incremented before the draw is known to have succeeded
SampleNumAfterMutant(kind) == sample_num + 1

\* self.sample_num after a call of _sample_interval that gave outcome kind
SampleNumAfter(kind) == IF kind = "ok" THEN sample_num + 1 ELSE sample_num

\* the instance stamped with the counter as it is after the increment
NewInstanceMutant(o, sample_type) ==
    [filename |-> [name |-> IF sample_type = 0 THEN "train_" ELSE "test_",
                   num |-> sample_num, at |-> o.adj_timedate],
     data |-> o.sampled_data,
     metadata |-> [type |-> sample_type,
                   first_row |-> o.first_row,
                   sample_num |-> sample_num + 1,
                   parent_sample_num |-> metadata.sample_num,
                   parent_sample_type |-> metadata.type],
     nested_class_ref |-> Pop(_config_stack).nested_class_ref,
     _config_stack |-> Pop(_config_stack)._config_stack]

\* the instance _sample_interval builds, as _sample leaves it
NewInstance(o, sample_type) ==
    [filename |-> [name |-> IF sample_type = 0 THEN "train_" ELSE "test_",
                   num |-> sample_num, at |-> o.adj_timedate],
     data |-> o.sampled_data,
     metadata |-> [type |-> sample_type,
                   first_row |-> o.first_row,
                   sample_num |-> sample_num,
                   parent_sample_num |-> metadata.sample_num,
                   parent_sample_type |-> metadata.type],
     nested_class_ref |-> Pop(_config_stack).nested_class_ref,
     _config_stack |-> Pop(_config_stack)._config_stack]

\* the stamps of the new instance written to the instance cached before as well
HeapMutant(kept, ref, e) ==
    [i \in (DOMAIN objects \cap kept) \cup {ref} |->
        IF i = ref THEN e
        ELSE IF i = sample_instance THEN [objects[i] EXCEPT !.metadata = e.metadata]
        ELSE objects[i]]

\* The instances after self.sample_instance has been bound to the new instance e
\* under reference ref and e has been stamped: the instances of `kept` are as
\* they were.
Heap(kept, ref, e) ==
    [i \in (DOMAIN objects \cap kept) \cup {ref} |-> IF i = ref THEN e ELSE objects[i]]

\* every instance taken for ready
IsReadyMutant == TRUE

\* the first assertion of _sample
IsReady == is_ready

\* every sample_type taken for valid
ValidSampleTypeMutant(sample_type) == TRUE

\* the second assertion of _sample
ValidSampleType(sample_type) == sample_type \in {0, 1}

\* nothing returned when no sample is drawn
ReusedMutant == NoObject

\* what _sample returns when it draws no new sample
Reused == sample_instance

\* kept: the references to instances returned earlier that the caller still
\* holds; the dataset itself refers to the cached instance only.
_sample(get_new, sample_type, b_alpha, b_beta, kept) ==
    /\ UNCHANGED <<filename, data, is_ready, config_vars, plan_vars, train_interval,
                   test_interval, nested_vars, n_changes, frame>>
    /\ IF ~IsReady
       THEN /\ last' = Call("sample", "NotReadyError", 0, NoObject, FALSE,
                            get_new, sample_type, b_alpha)
            /\ UNCHANGED <<sample_num, sample_instance, objects>>
       ELSE IF ~ValidSampleType(sample_type)
       THEN /\ last' = Call("sample", "InvalidSampleTypeError", 0, NoObject, FALSE,
                            get_new, sample_type, b_alpha)
            /\ UNCHANGED <<sample_num, sample_instance, objects>>
       ELSE IF NeedNew(get_new)
       THEN \E o \in SampleDraws(sample_type, b_alpha, b_beta) :
                /\ sample_num' = SampleNumAfter(o.kind)
                /\ IF o.kind = "ok"
                   THEN /\ sample_instance < MaxObjects
                        /\ objects' = Heap(kept, sample_instance + 1,
                                            NewInstance(o, sample_type))
                        /\ sample_instance' = sample_instance + 1
                        /\ last' = Call("sample", "ok", 0, sample_instance + 1, TRUE,
                                        get_new, sample_type, b_alpha)
                   ELSE /\ last' = Call("sample", o.kind, o.attempts, NoObject, TRUE,
                                        get_new, sample_type, b_alpha)
                        /\ UNCHANGED <<sample_instance, objects>>
       ELSE /\ last' = Call("sample", "ok", 0, Reused, FALSE,
                            get_new, sample_type, b_alpha)
            /\ UNCHANGED <<sample_num, sample_instance, objects>>

-----------------------------------------------------------------------------

Next ==
    \/ \E p \in NewParams : set_params(p)
    \/ \E f \in {0, MissingFile} \cup FileIds, force \in BOOLEAN : read_csv(f, force)
    \/ \E f \in {0, MissingFile} \cup FileIds : _reset(f)
    \/ \E get_new \in BOOLEAN, sample_type \in {0, 1, 2}, b_alpha \in {0, 1} :
          _sample(get_new, sample_type, b_alpha, 1, {})

Spec == Init /\ [][Next]_vars

\* The calls of a caller that keeps every instance it was given.
NextKept ==
    \/ \E f \in {0} \cup FileIds : _reset(f)
    \/ \E get_new \in BOOLEAN, sample_type \in {0, 1, 2}, b_alpha \in {0, 1} :
          _sample(get_new, sample_type, b_alpha, 1, DOMAIN objects)

SpecKept == Init /\ [][NextKept]_vars

\* The same caller, of instances built with deeper stacks.
InitNested == Construct(NestedDepths)

SpecNested == InitNested /\ [][NextKept]_vars

\* A caller that loads with read_csv and, once data is held, names in every
\* reset() and in every read_csv() without force_reload a file other than the
\* one held.
NextLoad ==
    \/ \E p \in NewParams : set_params(p)
    \/ \E f \in {0, MissingFile} \cup FileIds, force \in BOOLEAN :
          /\ (data # <<>> /\ ~force) => f \notin {0, filename}
          /\ read_csv(f, force)
    \/ \E f \in {MissingFile} \cup FileIds :
          /\ data # <<>>
          /\ f # filename
          /\ _reset(f)

SpecLoad == Init /\ [][NextLoad]_vars

\* the intervals _sample_interval is called with: those of the plan and some that
\* no plan makes
Intervals == {train_interval, test_interval, <<5, 5>>, <<5, 2>>, <<0, 9>>, <<0, 1, 2>>}

\* the Beta parameters it is called with
BetaParams == {0, 1}

\* A caller of _sample_interval and _sample_random, the calls followed step by
\* step; a call once made runs on.
NextLoop ==
    \/ \E f \in {0} \cup FileIds : ~Running /\ _reset(f)
    \/ \E interval \in Intervals, b_alpha \in BetaParams, b_beta \in BetaParams :
          Enter("_sample_interval", interval, b_alpha, b_beta)
    \/ Enter("_sample_random", <<>>, 1, 1)
    \/ Step

\* an instance made without a filename
InitLoop == Init /\ filename = 0

SpecLoop == InitLoop /\ [][NextLoop]_vars /\ WF_vars(Step)

-----------------------------------------------------------------------------
(* Properties *)

\* the instance the last call returned
Returned == objects[last.ret]

\* the last call was a sample() that built and returned a new instance
FreshSample == last.op = "sample" /\ last.kind = "ok" /\ last.fresh

\* the plan held by the instance is the one a successful _reset makes of its
\* present data and parameters
PlanCurrent ==
    /\ is_ready
    /\ train_num_records >= sample_num_records
    /\ test_num_records > 0 => test_num_records >= sample_num_records
    /\ data # <<>>
    /\ sample_num_records = PyInt(sample_duration, timeframe)
    /\ test_num_records = PyRound(test_period, timeframe)
    /\ train_num_records = Len(data) - test_num_records
    /\ max_sample_len_delta = sample_duration
    /\ max_time_gap = time_gap
    /\ train_interval = <<0, train_num_records>>
    /\ test_interval = <<train_num_records, Len(data)>>

\* sample_len - max_sample_len_delta of the window of n rows that starts at row
Excess(d, row, n) ==
    LET w == PySlice(d, row, row + n)
    IN  w[Len(w)] - w[1] - max_sample_len_delta

\* C1: after a successful reset, train_interval = [0, trainRowCount] and
\* test_interval = [trainRowCount, rowCount], with trainRowCount = rowCount -
\* testRowCount and testRowCount = round(test_period / timeframe).
C1_PlanIntervals ==
    (last.op = "reset" /\ last.kind = "ok") =>
        LET rowCount == Len(data)
            testRowCount == PyRound(test_period, timeframe)
            trainRowCount == rowCount - testRowCount
        IN  /\ trainRowCount >= PyInt(sample_duration, timeframe)
            /\ testRowCount > 0 => testRowCount >= PyInt(sample_duration, timeframe)
            /\ train_interval = <<0, trainRowCount>>
            /\ test_interval = <<trainRowCount, rowCount>>

C1_Witness ==
    /\ last.op = "reset" /\ last.kind = "ok"
    /\ test_num_records > 0
    /\ test_interval = <<train_num_records, Len(data)>>

\* C2: the realized duration of every window sample() returns, minus the episode
\* duration, is strictly less than the gap tolerance.
C2_GapStrict ==
    FreshSample =>
        Returned.data[Len(Returned.data)] - Returned.data[1] - max_sample_len_delta
            < max_time_gap

\* a window was returned from an interval that also holds a window whose excess
\* equals the gap tolerance
C2_Witness ==
    /\ FreshSample /\ PlanCurrent /\ last.sample_type = 0
    /\ \E row \in 0 .. train_num_records - sample_num_records :
        Excess(data, row, sample_num_records) = max_time_gap

\* C3: with start_weekdays non-empty, the first row of every window sample()
\* returns has a weekday in start_weekdays.
C3_StartWeekday ==
    (FreshSample /\ PlanCurrent /\ start_weekdays # {}) =>
        Weekday(Returned.data[1]) \in start_weekdays

\* C4: every window sample(sample_type=1) returns lies inside the test interval.
C4_TestInsideTest ==
    (FreshSample /\ PlanCurrent /\ last.sample_type = 1 /\ test_num_records > 0) =>
        /\ Returned.metadata.first_row >= train_num_records
        /\ Returned.metadata.first_row + sample_num_records <= Len(data)

\* C5: every window sample(sample_type=0) returns on a ready instance has exactly
\* sample_num_records rows and a first row in [0, trainRowCount - episodeRowCount].
C5_TrainInsideTrain ==
    (FreshSample /\ last.sample_type = 0) =>
        /\ Len(Returned.data) = sample_num_records
        /\ Returned.metadata.first_row \in 0 .. train_interval[2] - sample_num_records

\* C6: a reset that fails in planning leaves the instance not ready.
C6_FailedPlanNotReady ==
    (last.op = "reset" /\ last.kind = "InsufficientDataError") => ~is_ready

\* C7: with a cached sample, sample(get_new=False) returns the cached instance
\* and changes nothing.
C7_CacheHit ==
    [][(/\ sample_instance # NoObject
        /\ last'.op = "sample"
        /\ ~last'.get_new
        /\ last'.sample_type \in {0, 1})
       => (/\ last'.kind = "ok"
           /\ last'.ret = sample_instance
           /\ UNCHANGED <<filename, data, is_ready, config_vars, plan_vars,
                          train_interval, test_interval, sample_num, sample_instance,
                          nested_vars, objects>>)]_vars

\* two calls sample(get_new=False) in a row are not told apart by the state, so
\* the witness is the state after one: the cached instance came back
C7_Witness ==
    /\ last.op = "sample" /\ last.kind = "ok" /\ ~last.get_new /\ ~last.fresh
    /\ last.ret = sample_instance
    /\ sample_instance # NoObject

\* C8: a sample() that fails leaves the cached sample, the counter, the
\* intervals and is_ready as they were.
C8_AllOrNothing ==
    [][(last'.op = "sample" /\ last'.kind # "ok")
       => UNCHANGED <<sample_instance, sample_num, train_interval, test_interval,
                      is_ready, objects>>]_vars

C8_Witness ==
    /\ last.op = "sample" /\ last.kind = "SamplingExhaustedError"
    /\ sample_instance # NoObject
    /\ sample_num > 0

\* no record of the interval has a weekday in start_weekdays
NoGoodDay(interval) ==
    \A row \in interval[1] .. interval[2] - 1 : ~GoodDay(data[row + 1])

\* C9: when no record of the sampled interval has a weekday in start_weekdays,
\* the run fails with SamplingExhaustedError and a reported count of max_attempts.
C9_ExhaustedAtMaxAttempts ==
    (/\ last.op = "sample" /\ last.fresh /\ PlanCurrent
     /\ sample_num_records > 0
     /\ NoGoodDay(IF last.sample_type = 0 THEN train_interval ELSE test_interval)
     /\ last.kind \notin {"InvalidIntervalError", "InvalidDistributionParamError"})
    => (last.kind = "SamplingExhaustedError" /\ last.attempts = max_attempts)

\* C10: reset fails with InsufficientDataError exactly when the train rows, or a
\* non-empty set of test rows, are fewer than the rows of one sample.
C10_PlanVerdict ==
    (last.op = "reset" /\ last.kind \in {"ok", "InsufficientDataError"}) =>
        LET n == PyInt(sample_duration, timeframe)
            test == PyRound(test_period, timeframe)
            train == Len(data) - test
        IN  /\ last.kind = "InsufficientDataError" <=>
                (train < n \/ (test > 0 /\ test < n))
            /\ last.kind = "ok" => is_ready
            /\ (test = 0 /\ train >= n) => last.kind = "ok"

\* the train rows host a sample, the test rows do not
C10_Witness ==
    /\ last.op = "reset" /\ last.kind = "InsufficientDataError"
    /\ train_num_records >= sample_num_records
    /\ test_num_records > 0

\* C11: whenever the instance is ready, train_interval = [0, k] and test_interval =
\* [k, rowCount] for the series it holds, with 0 <= k <= rowCount and k at least
\* the rows of one sample.
C11_ReadyPartition ==
    is_ready =>
        LET k == train_interval[2]
        IN  /\ train_interval = <<0, k>>
            /\ test_interval = <<k, Len(data)>>
            /\ 0 <= k /\ k <= Len(data)
            /\ k >= sample_num_records

\* the last call was a sample() that built a new instance: the step that made it
FreshStep == last'.op = "sample" /\ last'.kind = "ok" /\ last'.fresh

\* C12 as stated: every fresh sample carries a sample_num greater than that of the
\* sample returned before it (the cached one), whatever was called in between.
C12_StrictlyIncreasing ==
    [][(FreshStep /\ sample_instance # NoObject)
       => objects'[last'.ret].metadata.sample_num
              > objects[sample_instance].metadata.sample_num]_vars

\* C12, amended: a fresh sample is stamped with the counter and raises it by one,
\* nothing else changes the counter but a successful reset, which sets it to 0:
\* the stamps increase strictly between two successful resets and start again at
\* 0 after each.
C12_IncreasingBetweenResets ==
    [][/\ FreshStep => /\ objects'[last'.ret].metadata.sample_num = sample_num
                       /\ sample_num' = sample_num + 1
       /\ (last'.op = "reset" /\ last'.kind = "ok") => sample_num' = 0
       /\ (~FreshStep /\ ~(last'.op = "reset" /\ last'.kind = "ok"))
              => sample_num' = sample_num]_vars

\* a second sample stamped 0 as the one before it was, a reset having come between
C12_Witness ==
    /\ FreshSample /\ last.ret = 2
    /\ Returned.metadata.sample_num = 0

\* C13: sample() on an instance that is not ready fails with NotReadyError,
\* whatever its arguments are, an invalid sample_type included.
C13_NotReadyFirst ==
    (last.op = "sample" /\ ~is_ready) =>
        (last.kind = "NotReadyError" /\ last.ret = NoObject /\ ~last.fresh)

C13_Witness ==
    /\ last.op = "sample" /\ ~is_ready /\ last.kind = "NotReadyError"
    /\ last.sample_type \notin {0, 1}
    /\ last.b_alpha = 0

\* C15: the outcomes of a test sample are the same for all Beta parameters of the
\* caller, and InvalidDistributionParamError is not among them.
C15_TestIgnoresBeta ==
    /\ is_ready =>
        LET uniform == SampleDraws(1, 1, 1)
        IN  /\ \A o \in uniform : o.kind # "InvalidDistributionParamError"
            /\ \A b_alpha \in BetaParams, b_beta \in BetaParams :
                   (b_alpha <= 0 \/ b_beta <= 0) =>
                       SampleDraws(1, b_alpha, b_beta) = uniform
    /\ (last.op = "sample" /\ last.sample_type = 1) =>
           last.kind # "InvalidDistributionParamError"

\* a test sample drawn with b_alpha = 0, in a state where a train sample with
\* b_alpha = 0 is refused
C15_Witness ==
    /\ FreshSample /\ last.sample_type = 1 /\ last.b_alpha = 0
    /\ \A o \in SampleDraws(0, 0, 1) : o.kind = "InvalidDistributionParamError"

\* C16: on a ready instance sample() with a sample_type outside {0, 1} fails with
\* InvalidSampleTypeError without drawing and without returning the cached sample.
C16_InvalidSampleType ==
    (last.op = "sample" /\ is_ready /\ last.sample_type \notin {0, 1}) =>
        (last.kind = "InvalidSampleTypeError" /\ last.ret = NoObject /\ ~last.fresh)

C16_Witness ==
    /\ last.op = "sample" /\ is_ready /\ last.sample_type \notin {0, 1}
    /\ ~last.get_new
    /\ sample_instance # NoObject

\* C20: a sample() that builds a new instance with sample_type t and counter c
\* returns an instance not seen before, stamped type t, sample_num c and the
\* dataset's own metadata as parent, named with c; the counter becomes c + 1 and
\* the cache is the instance returned.
C20_FreshStamp ==
    [][FreshStep =>
        LET e == objects'[last'.ret]
        IN  /\ last'.ret \notin DOMAIN objects
            /\ e.metadata.type = last'.sample_type
            /\ e.metadata.sample_num = sample_num
            /\ e.metadata.parent_sample_num = metadata.sample_num
            /\ e.metadata.parent_sample_type = metadata.type
            /\ e.filename.num = sample_num
            /\ sample_num' = sample_num + 1
            /\ sample_instance' = last'.ret]_vars

\* the second sample since a reset, a test sample
C20_Witness ==
    /\ FreshSample /\ last.sample_type = 1
    /\ sample_num = 2
    /\ Returned.metadata.sample_num = 1

\* C17: no call changes an instance returned earlier: every instance the caller
\* holds is after the call what it was before it.
C17_ReturnedUnchanged ==
    [][\A i \in DOMAIN objects : i \in DOMAIN objects' /\ objects'[i] = objects[i]]_vars

\* a second instance has been built while the first is still held
C17_Witness ==
    /\ FreshSample /\ last.ret = 2
    /\ 1 \in DOMAIN objects
    /\ objects[1].metadata.sample_num = 0
    /\ Returned.metadata.sample_num = 1

\* the call followed has ended
Done == frame.pc = "done"

\* the call followed ended on entry: nothing drawn, nothing counted
FailedFast == Done /\ frame.attempts = 0 /\ frame.first_row = None

\* C14: with data loaded, _sample_interval ends at its assertions on entry,
\* nothing drawn and nothing counted, with InvalidIntervalError for an interval
\* of a length other than 2, with low >= high or with high > rowCount, and with
\* InvalidDistributionParamError for a b_alpha or b_beta that is not positive;
\* where both arguments are bad it is one of the two errors, the one of the
\* assertion that comes first.  With both good the call goes on to the loop.
C14_FailFast ==
    [][(/\ frame.pc = "check" /\ frame'.pc # "check"
        /\ frame.fn = "_sample_interval" /\ data # <<>>) =>
        LET interval == frame.interval
            bad_interval ==
                \/ Len(interval) # 2
                \/ interval[1] >= interval[2]
                \/ interval[2] > Len(data)
            bad_beta == frame.b_alpha <= 0 \/ frame.b_beta <= 0
            errors == {"InvalidIntervalError", "InvalidDistributionParamError"}
        IN  /\ (bad_interval \/ bad_beta) => (FailedFast' /\ frame'.kind \in errors)
            /\ (bad_interval /\ ~bad_beta) => frame'.kind = "InvalidIntervalError"
            /\ (bad_beta /\ ~bad_interval) =>
                   frame'.kind = "InvalidDistributionParamError"
            /\ (~bad_interval /\ ~bad_beta) => frame'.pc = "while"]_vars

\* an empty interval inside the data was refused, the Beta parameters being good
C14_Witness ==
    /\ FailedFast /\ frame.kind = "InvalidIntervalError"
    /\ frame.interval = <<5, 5>> /\ Len(data) > 5
    /\ frame.b_alpha > 0 /\ frame.b_beta > 0

\* C18: the attempt counter of a call never exceeds max_attempts.
C18_CounterWithinBudget == frame.attempts <= max_attempts

\* C19: every call of _sample_interval and of _sample_random ends, by a return or
\* by an error, its counter bounded.
C19_Terminates ==
    /\ [](frame.attempts <= max_attempts + 1)
    /\ (frame.pc = "check") ~> Done

\* calls that ended late: one of _sample_random out of attempts, one of
\* _sample_interval accepted after rejections
C19_Witness ==
    /\ Done
    /\ \/ frame.fn = "_sample_random" /\ frame.kind = "AssertionError"
       \/ frame.fn = "_sample_interval" /\ frame.kind = "ok" /\ frame.attempts > 2

\* The two models of _sample_interval agree: what a call followed step by step
\* ends with is among the outcomes _sample_interval gives for its arguments.
LoopAgrees ==
    [][(frame.pc # "done" /\ frame'.pc = "done" /\ frame.fn = "_sample_interval") =>
        \E o \in _sample_interval(frame.interval, frame.b_alpha, frame.b_beta) :
            /\ o.kind = frame'.kind
            /\ o.kind = "ok" => o.first_row = frame'.first_row
            /\ o.kind = "SamplingExhaustedError" => o.attempts = frame'.attempts]_vars

\* the step draws a candidate first_row: a pass of the outer loop begins, or the
\* inner loop draws again
DrawStep ==
    /\ \/ frame.pc = "while" /\ InBudget(frame.attempts)
       \/ frame.pc = "inner" /\ Resample
    /\ frame' # frame

\* C21: every candidate first_row of _sample_interval, first draw or redraw, is
\* low + floor(L * b) with 0 <= b < 1 and L = high - low - sample_num_records: for
\* L > 0 it lies in low .. low + L - 1, and its window of sample_num_records rows
\* lies inside the interval.
C21_CandidateRange ==
    [][(DrawStep /\ frame.fn = "_sample_interval") =>
        LET low == frame.interval[1]
            high == frame.interval[2]
            L == high - low - sample_num_records
            candidate == frame'.first_row
        IN  /\ L > 0 => candidate \in low .. low + L - 1
            /\ low <= candidate /\ candidate + sample_num_records <= high]_vars


\* the call ends because the attempts are used up, in the weekday search or
\* after the last rejection
Exhausting ==
    /\ frame.pc \in {"while", "inner"}
    /\ ~InBudget(frame.attempts)
    /\ frame'.pc = "done"

\* C22: _sample_random behaves as _sample_interval called for the whole dataset
\* with a uniform draw: its candidates range over 0 .. rows - sample_num_records - 1,
\* the rows _sample_interval proposes for the interval [0, rows], and it ends
\* with SamplingExhaustedError when the attempts are used up, in the weekday
\* search as after a rejected window.
C22_RandomAsInterval ==
    [][frame.fn = "_sample_random" =>
        /\ DrawStep =>
            /\ RandomDraws = FirstDraws(<<0, Len(data)>>)
            /\ Len(data) - sample_num_records > 0 =>
                   RandomDraws = 0 .. Len(data) - sample_num_records - 1
        /\ Exhausting => frame'.kind = "SamplingExhaustedError"]_vars


\* C23: a cache hit ignores the requested sample type: when an instance of one
\* type is cached, sample(get_new=False) asking for the other valid type returns
\* the cached instance, of the type it was drawn with, and draws nothing.
C23_HitIgnoresType ==
    [][(/\ IsReady
        /\ sample_instance # NoObject
        /\ last'.op = "sample"
        /\ ~last'.get_new
        /\ ValidSampleType(last'.sample_type)
        /\ last'.sample_type # objects[sample_instance].metadata.type)
       => /\ last'.kind = "ok"
          /\ ~last'.fresh
          /\ last'.ret = sample_instance
          /\ UNCHANGED <<sample_instance, objects, sample_num>>]_vars

\* a sample of one type returned from the cache to a call asking for the other
C23_Witness ==
    /\ last.op = "sample"
    /\ last.kind = "ok"
    /\ ~last.fresh
    /\ ~last.get_new
    /\ last.ret = sample_instance
    /\ ValidSampleType(last.sample_type)
    /\ Returned.metadata.type # last.sample_type


\* C24: _reset keeps the cached sample while it sets sample_num to 0: the call
\* leaves sample_instance and the instance it refers to as they were, and a
\* sample(get_new=False) that follows a successful reset returns the instance
\* drawn before the reset and draws nothing.
C24_ResetKeepsCache ==
    [][/\ last'.op = "reset" =>
            /\ UNCHANGED <<sample_instance, objects>>
            /\ last'.kind = "ok" => sample_num' = 0
       /\ (/\ last.op = "reset"
           /\ last.kind = "ok"
           /\ sample_instance # NoObject
           /\ last'.op = "sample"
           /\ ~last'.get_new
           /\ ValidSampleType(last'.sample_type))
          => /\ last'.kind = "ok"
             /\ ~last'.fresh
             /\ last'.ret = sample_instance
             /\ UNCHANGED <<sample_instance, objects, sample_num>>]_vars

\* a train sample drawn before a reset that moved the partition, returned after
\* it from the cache: its rows reach beyond the train interval now planned
C24_Witness ==
    /\ last.op = "sample"
    /\ last.kind = "ok"
    /\ ~last.fresh
    /\ last.ret = sample_instance
    /\ sample_num = 0
    /\ Returned.metadata.type = 0
    /\ Returned.metadata.first_row + Len(Returned.data) > train_interval[2]


\* C25: once data is loaded, reset() and read_csv() without force_reload leave
\* data and filename as they are, also when the call names another file: data is
\* replaced by read_csv(force_reload=True) only, and a successful reset plans
\* over the data already held.
C25_LoadedDataKept ==
    [][data # <<>> =>
        /\ last'.op = "reset" =>
            /\ data' = data
            /\ filename' = filename
            /\ last'.kind \in {"ok", "InsufficientDataError"}
            /\ train_num_records' + test_num_records' = Len(data)
            /\ last'.kind = "ok" => test_interval'[2] = Len(data)
        /\ (data' # data \/ filename' # filename) =>
               \E f \in {0, MissingFile} \cup FileIds : read_csv(f, TRUE)]_vars

\* data loaded, then a reset naming another file: the plan made is that of the
\* data held
C25_Witness ==
    /\ last.op = "reset"
    /\ last.kind = "ok"
    /\ filename \in FileIds
    /\ data = Files[filename]
    /\ test_interval[2] = Len(data)


\* the number of entries the instance (or a sample x of it) was built with,
\* as its fields tell
OwnDepth == IF nested_class_ref THEN _config_stack + 1 ELSE 0
DepthOf(x) == IF x.nested_class_ref THEN x._config_stack + 1 ELSE 0

====
